---- MODULE Spec2Model ----
(***************************************************************************)
(* Model of horovod-keras-example/train.py: the per-worker driver script   *)
(* of a Horovod + Keras data-parallel training run.  Every worker runs the *)
(* same script; the collectives (hvd.broadcast, the broadcast of the       *)
(* initial variables, the gradient and metric all-reduce) are joint steps  *)
(* of the whole fleet, everything else is a local step of one worker.      *)
(***************************************************************************)
EXTENDS Integers, Sequences, FiniteSets, TLC

\* ------------------------------------------------------------------ bounds
NumWorkers == 2            \* hvd.size() in the fleet model
MaxEpochs == 3             \* largest --epochs in the fleet model
MaxRestarts == 2           \* interruptions followed by a restart
MaxScanEpochs == 101       \* largest --epochs in the discovery model
MaxSize == 4               \* largest hvd.size() in the schedule model
MaxLrEpoch == 90           \* last epoch of the schedule model

\* ------------------------------------------------- exact rational numbers
\* Learning rates are kept as reduced fractions <<numerator, denominator>>.
RECURSIVE GCD(_, _)
GCD(a, b) == IF b = 0 THEN a ELSE GCD(b, a % b)

Rat(n, d) == LET g == GCD(n, d) IN <<n \div g, d \div g>>

RMul(x, y) == Rat(x[1] * y[1], x[2] * y[2])

RLeq(x, y) == x[1] * y[2] <= y[1] * x[2]

\* ------------------------------------------------------- checkpoint names
RECURSIVE Digits(_)
Digits(n) == IF n < 10 THEN <<n>> ELSE Digits(n \div 10) \o <<n % 10>>

\* Python's format spec 02d: decimal digits, zero-padded to width two.
Format02d(n) == IF Len(Digits(n)) < 2 THEN <<0>> \o Digits(n) ELSE Digits(n)

\* f"{checkpoints_logging_dir}/checkpoint-epoch-{_epoch:02d}.h5"
ProbePath(_epoch) == <<"checkpoint-epoch-">> \o Format02d(_epoch) \o <<".h5">>

\* The save pattern with a field of width three instead of two.
SavePathWidth3(epoch) ==
    <<"checkpoint-epoch-">>
        \o (IF Len(Digits(epoch + 1)) < 3 THEN <<0>> \o Format02d(epoch + 1)
            ELSE Digits(epoch + 1))
        \o <<".h5">>

\* ModelCheckpoint(".../checkpoint-epoch-{epoch:02d}.h5"): Keras formats the
\* pattern with the one-based number of the epoch that has just ended.
SavePath(epoch) == <<"checkpoint-epoch-">> \o Format02d(epoch + 1) \o <<".h5">>

None == <<>>

\* ---------------------------------------------------- checkpoint discovery
\* for _epoch in range(args.epochs, 0, -1): first existing file wins.
RECURSIVE ScanFrom(_, _)
ScanFrom(names, _epoch) ==
    IF _epoch <= 0
    THEN [checkpoint_filepath |-> None, initial_epoch |-> 0]
    ELSE IF ProbePath(_epoch) \in names
         THEN [checkpoint_filepath |-> ProbePath(_epoch), initial_epoch |-> _epoch]
         ELSE ScanFrom(names, _epoch - 1)

\* The scan started one epoch too low: range(args.epochs - 1, 0, -1).
DiscoverLatestBelowMax(names, max_epoch) == ScanFrom(names, max_epoch - 1)

DiscoverLatest(names, max_epoch) == ScanFrom(names, max_epoch)

\* ------------------------------------------------- learning-rate callbacks
FirstDecayEpoch == 30
SecondDecayEpoch == 60
ThirdDecayEpoch == 80
NoEnd == -1

\* _initial_lr = args.base_lr * hvd.size()
InitialLr(base_lr, size) == RMul(base_lr, Rat(size, 1))

\* LearningRateWarmupCallback(warmup_epochs): in scope for epoch < warmup_epochs,
\* multiplier 1/size * (epoch * (size - 1) / warmup_epochs + 1).
WarmupMultiplier(epoch, size, warmup_epochs) ==
    Rat(epoch * (size - 1) + warmup_epochs, size * warmup_epochs)

\* The four LearningRateScheduleCallback entries: <<start, end, multiplier>>.
ScheduleCallbacks(warmup_epochs) ==
    << <<warmup_epochs, FirstDecayEpoch, Rat(1, 1)>>,
       <<FirstDecayEpoch, SecondDecayEpoch, Rat(1, 10)>>,
       <<SecondDecayEpoch, ThirdDecayEpoch, Rat(1, 100)>>,
       <<ThirdDecayEpoch, NoEnd, Rat(1, 1000)>> >>

\* A schedule callback acts when start_epoch <= epoch and, if it has an end,
\* epoch < end_epoch.
InScope(cb, epoch) == cb[1] <= epoch /\ (cb[2] = NoEnd \/ epoch < cb[2])

\* The callbacks run in list order at the first batch of an epoch; each one in
\* scope overwrites optimizer.lr with initial_lr * multiplier, the others
\* leave it as it is.
RECURSIVE RunSchedule(_, _, _, _, _)
RunSchedule(cbs, i, lr, initial_lr, epoch) ==
    IF i > Len(cbs) THEN lr
    ELSE RunSchedule(cbs, i + 1,
                     IF InScope(cbs[i], epoch) THEN RMul(initial_lr, cbs[i][3]) ELSE lr,
                     initial_lr, epoch)

AdjustLearningRate(lr, initial_lr, epoch, size, warmup_epochs) ==
    LET warmed == IF epoch < warmup_epochs
                  THEN RMul(initial_lr, WarmupMultiplier(epoch, size, warmup_epochs))
                  ELSE lr
    IN RunSchedule(ScheduleCallbacks(warmup_epochs), 1, warmed, initial_lr, epoch)

\* ------------------------------------------------------------- the fleet
Workers == 0 .. (NumWorkers - 1)

\* steps_per_epoch = 10 in model_fn.fit
StepsPerEpoch == 10

\* --base-lr, in units of 1/80 (the default 1.25e-2 is 1/80)
BaseLrChoices == {Rat(1, 80)}

\* --warmup-epochs values of the fleet model
WarmupChoices == {0, 2}

VARIABLES
    args,                 \* parsed command line: epochs, warmup_epochs, base_lr
    shared,               \* TRUE iff every worker sees rank 0's logging directory
    ckptdir,              \* ckptdir[w]: the checkpoint files worker w sees
    pc,                   \* pc[w]: worker w's position in the script
    initial_epoch,        \* initial_epoch[w]
    checkpoint_filepath,  \* checkpoint_filepath[w], None when nothing was found
    loaded,               \* loaded[w]: the path worker w gave to hvd.load_model
    params,               \* params[w]: model and optimizer variables of model_fn
    lr,                   \* lr[w]: the optimizer's learning rate
    initial_lr,           \* initial_lr[w]: the rate the callbacks scale
    epoch,                \* epoch[w]: current epoch index inside fit
    batch,                \* batch[w]: current batch index inside the epoch
    trace,                \* trace[w]: collective operations worker w has entered and left
    writes,               \* files written into a checkpoint directory in this run
    restarts,             \* number of interruptions so far
    hooks,                \* hooks[w]: events of the current epoch, metrics in logs, next callback
    failed,               \* failed[w]: the operation that raised in worker w, "none" if none
    scan,                 \* discovery model: directory, max_epoch, last save, result
    sched,                \* schedule model: configuration, epoch, rate, previous rate
    boot,                 \* startup model: logging directories and script positions
    data,                 \* data model: class directories and the last example
    stream                \* stream model: two runs of one rank side by side

vars == <<args, shared, ckptdir, pc, initial_epoch, checkpoint_filepath, loaded,
          params, lr, initial_lr, epoch, batch, trace, writes, restarts, hooks, failed, scan, sched,
          boot, data, stream>>

fleetvars == <<args, shared, ckptdir, pc, initial_epoch, checkpoint_filepath, loaded,
               params, lr, initial_lr, epoch, batch, trace, writes, restarts, hooks,
               failed>>

Idle == [used |-> FALSE]

Names(dir) == {f.name : f \in dir}

FileAt(dir, name) == CHOOSE f \in dir : f.name = name

\* Writing a file replaces a file of the same name.
WriteFile(dir, f) == {g \in dir : g.name # f.name} \cup {f}

NoFailure == "none"

\* Nothing has happened in the current epoch.
NoHooks == [seen |-> <<>>, metrics |-> "none", next |-> 1]

\* The state of every worker when the script starts.
Started ==
    /\ pc = [w \in Workers |-> "discover"]
    /\ initial_epoch = [w \in Workers |-> 0]
    /\ checkpoint_filepath = [w \in Workers |-> None]
    /\ loaded = [w \in Workers |-> None]
    /\ params = [w \in Workers |-> None]
    /\ lr = [w \in Workers |-> Rat(0, 1)]
    /\ initial_lr = [w \in Workers |-> Rat(0, 1)]
    /\ epoch = [w \in Workers |-> 0]
    /\ batch = [w \in Workers |-> 0]
    /\ trace = [w \in Workers |-> <<>>]
    /\ writes = <<>>
    /\ hooks = [w \in Workers |-> NoHooks]
    /\ failed = [w \in Workers |-> NoFailure]

\* The fleet at rest, for the models of single parts of the script.
FleetIdle ==
    /\ args = [epochs |-> 1, warmup_epochs |-> 0, base_lr |-> Rat(1, 80)]
    /\ shared = TRUE
    /\ ckptdir = [w \in Workers |-> {}]
    /\ restarts = 0
    /\ Started

Init ==
    /\ args \in [epochs : 1 .. MaxEpochs, warmup_epochs : WarmupChoices,
                 base_lr : BaseLrChoices]
    /\ shared \in BOOLEAN
    /\ ckptdir = [w \in Workers |-> {}]
    /\ restarts = 0
    /\ Started
    /\ scan = Idle
    /\ sched = Idle
    /\ boot = Idle
    /\ data = Idle
    /\ stream = Idle

\* Lines 148-157: the backward scan for an existing checkpoint.
Discover(w) ==
    /\ pc[w] = "discover"
    /\ LET found == DiscoverLatest(Names(ckptdir[w]), args.epochs)
       IN /\ checkpoint_filepath' = [checkpoint_filepath EXCEPT ![w] = found.checkpoint_filepath]
          /\ initial_epoch' = [initial_epoch EXCEPT ![w] = found.initial_epoch]
    /\ pc' = [pc EXCEPT ![w] = "broadcast"]
    /\ UNCHANGED <<args, shared, ckptdir, loaded, params, lr, initial_lr, epoch, batch,
                   trace, writes, restarts, hooks, failed, scan, sched, boot, data, stream>>

\* Line 158: hvd.broadcast(initial_epoch, root_rank=0).  The call returns the
\* root's value; the script does not assign it, so initial_epoch keeps the
\* worker's own value.
BroadcastInitialEpoch ==
    /\ \A w \in Workers : pc[w] = "broadcast"
    /\ pc' = [w \in Workers |-> "build"]
    /\ trace' = [w \in Workers |-> Append(trace[w], "broadcast")]
    /\ UNCHANGED <<args, shared, ckptdir, initial_epoch, checkpoint_filepath, loaded,
                   params, lr, initial_lr, epoch, batch, writes, restarts, hooks, failed, scan, sched, boot, data, stream>>

\* The operation that raised is entered again.
RetryPc(at) == at

\* Lines 160-163 and 224-232: no call of the script is inside a try block, so
\* an exception ends the worker's process wherever it is raised.
FailurePc(at) == "aborted"

\* The restore branch without its rank test.
RestoresCheckpointAnyRank(w) == checkpoint_filepath[w] # None

\* Line 161: if checkpoint_filepath is not None and hvd.rank() == 0
RestoresCheckpoint(w) == checkpoint_filepath[w] # None /\ w = 0

\* Lines 160-186: rank 0 restores the checkpoint it found, every other case
\* builds and compiles a new model with lr = base_lr * size.
\* hvd.load_model raises on a file whose write was not completed; nothing in
\* the script catches it.
BuildModel(w) ==
    /\ pc[w] = "build"
    /\ IF RestoresCheckpoint(w)
       THEN LET f == FileAt(ckptdir[w], checkpoint_filepath[w])
            IN /\ loaded' = [loaded EXCEPT ![w] = checkpoint_filepath[w]]
               /\ IF f.complete
                  THEN /\ params' = [params EXCEPT ![w] = f.params]
                       /\ lr' = [lr EXCEPT ![w] = f.lr]
                       /\ pc' = [pc EXCEPT ![w] = "broadcast_variables"]
                       /\ failed' = failed
                  ELSE /\ pc' = [pc EXCEPT ![w] = FailurePc("build")]
                       /\ failed' = [failed EXCEPT ![w] = "load_model"]
                       /\ UNCHANGED <<params, lr>>
       ELSE /\ loaded' = loaded
            /\ params' = [params EXCEPT ![w] = [init |-> w, steps |-> 0]]
            /\ lr' = [lr EXCEPT ![w] = InitialLr(args.base_lr, NumWorkers)]
            /\ pc' = [pc EXCEPT ![w] = "broadcast_variables"]
            /\ failed' = failed
    /\ UNCHANGED <<args, shared, ckptdir, initial_epoch, checkpoint_filepath, initial_lr,
                   epoch, batch, trace, writes, restarts, hooks, scan, sched, boot, data,
                   stream>>

\* No broadcast: every worker keeps its own value.
BroadcastNothing(values, root_rank) == values

\* hvd broadcast of a value per worker: everyone gets the root's.
BroadcastFrom(values, root_rank) == [w \in Workers |-> values[root_rank]]

\* Lines 188-193: BroadcastGlobalVariablesCallback(0), the first callback of
\* fit: every worker takes rank 0's model and optimizer variables.
BroadcastGlobalVariables ==
    /\ \A w \in Workers : pc[w] = "broadcast_variables"
    /\ params' = BroadcastFrom(params, 0)
    /\ pc' = [w \in Workers |-> "train_begin"]
    /\ trace' = [w \in Workers |-> Append(trace[w], "broadcast_variables")]
    /\ UNCHANGED <<args, shared, ckptdir, initial_epoch, checkpoint_filepath, loaded,
                   lr, initial_lr, epoch, batch, writes, restarts, hooks, failed, scan, sched, boot, data, stream>>

\* Lines 201-211 and 225-227: the learning-rate callbacks are given no rate
\* of their own and scale the rate the optimizer holds when training begins;
\* fit then runs epochs initial_epoch .. epochs-1.
TrainBegin(w) ==
    /\ pc[w] = "train_begin"
    /\ initial_lr' = [initial_lr EXCEPT ![w] = lr[w]]
    /\ epoch' = [epoch EXCEPT ![w] = initial_epoch[w]]
    /\ pc' = [pc EXCEPT ![w] = IF initial_epoch[w] < args.epochs THEN "epoch_begin" ELSE "done"]
    /\ UNCHANGED <<args, shared, ckptdir, initial_epoch, checkpoint_filepath, loaded,
                   params, lr, batch, trace, writes, restarts, hooks, failed, scan, sched, boot, data, stream>>

Event(what, metrics) == [what |-> what, metrics |-> metrics]

\* Lines 201-211: at the start of an epoch the warmup and schedule callbacks
\* set the optimizer's rate.
EpochBegin(w) ==
    /\ pc[w] = "epoch_begin"
    /\ lr' = [lr EXCEPT ![w] = AdjustLearningRate(lr[w], initial_lr[w], epoch[w],
                                                  NumWorkers, args.warmup_epochs)]
    /\ batch' = [batch EXCEPT ![w] = 0]
    /\ hooks' = [hooks EXCEPT ![w] = [NoHooks EXCEPT !.seen = <<Event("adjust_lr", "none")>>]]
    /\ pc' = [pc EXCEPT ![w] = "allreduce_gradients"]
    /\ UNCHANGED <<args, shared, ckptdir, initial_epoch, checkpoint_filepath, loaded,
                   params, initial_lr, epoch, trace, writes, restarts, failed, scan, sched, boot, data, stream>>

\* Lines 175 and 228: one training step; hvd.DistributedOptimizer averages the
\* gradients of all workers before the update is applied.
AllreduceGradients ==
    /\ \A w \in Workers : pc[w] = "allreduce_gradients"
    /\ params' = [w \in Workers |-> [params[w] EXCEPT !.steps = @ + 1]]
    /\ batch' = [w \in Workers |-> batch[w] + 1]
    /\ pc' = [w \in Workers |->
                IF batch[w] + 1 < StepsPerEpoch THEN "allreduce_gradients"
                ELSE "on_epoch_end"]
    /\ hooks' = [w \in Workers |->
                   IF batch[w] + 1 < StepsPerEpoch THEN hooks[w]
                   ELSE [hooks[w] EXCEPT !.seen = Append(@, Event("run_steps", "local")),
                                         !.metrics = "local"]]
    /\ trace' = [w \in Workers |-> Append(trace[w], "allreduce_gradients")]
    /\ UNCHANGED <<args, shared, ckptdir, initial_epoch, checkpoint_filepath, loaded,
                   lr, initial_lr, epoch, writes, restarts, failed, scan, sched, boot, data, stream>>

\* Lines 195-199: MetricAverageCallback at the end of the epoch replaces the
\* metrics in logs by their average over the workers.
AllreduceMetrics ==
    /\ \A w \in Workers : pc[w] = "allreduce_metrics"
    /\ pc' = [w \in Workers |-> "on_epoch_end"]
    /\ hooks' = [w \in Workers |->
                   [hooks[w] EXCEPT !.seen = Append(@, Event("MetricAverageCallback", "averaged")),
                                    !.metrics = "averaged",
                                    !.next = @ + 1]]
    /\ trace' = [w \in Workers |-> Append(trace[w], "allreduce_metrics")]
    /\ UNCHANGED <<args, shared, ckptdir, initial_epoch, checkpoint_filepath, loaded,
                   params, lr, initial_lr, epoch, batch, writes, restarts, failed, scan, sched, boot, data, stream>>

\* The logging callbacks added on every rank.
LogsFromAnyWorker(w) == TRUE

\* Line 214: if hvd.rank() == 0
LogsFromWorker(w) == w = 0

\* The list with MetricAverageCallback moved behind the learning-rate callbacks.
BaseCallbacksAverageLast ==
    <<"BroadcastGlobalVariablesCallback",
      "LearningRateWarmupCallback",
      "LearningRateScheduleCallback", "LearningRateScheduleCallback",
      "LearningRateScheduleCallback", "LearningRateScheduleCallback",
      "MetricAverageCallback">>

\* Lines 188-211: _callbacks as every worker builds it.
BaseCallbacks ==
    <<"BroadcastGlobalVariablesCallback",
      "MetricAverageCallback",
      "LearningRateWarmupCallback",
      "LearningRateScheduleCallback", "LearningRateScheduleCallback",
      "LearningRateScheduleCallback", "LearningRateScheduleCallback">>

\* Lines 213-221: rank 0 extends the list by its two logging callbacks.
Callbacks(w) ==
    BaseCallbacks \o (IF LogsFromWorker(w) THEN <<"ModelCheckpoint", "TensorBoard">> ELSE <<>>)

\* The first position from i on that holds MetricAverageCallback, or the
\* position behind the list.
RECURSIVE NextAverage(_, _)
NextAverage(cbs, i) ==
    IF i > Len(cbs) \/ cbs[i] = "MetricAverageCallback" THEN i ELSE NextAverage(cbs, i + 1)

\* Lines 213-232: fit calls on_epoch_end of the callbacks in list order.  The
\* worker runs the callbacks from hooks[w].next up to the next
\* MetricAverageCallback, where it enters the all-reduce, or to the end of the
\* list, where the epoch ends.  ModelCheckpoint saves the model and its
\* optimizer under the name of the epoch that ended.
EpochEnd(w) ==
    /\ pc[w] = "on_epoch_end"
    /\ LET cbs == Callbacks(w)
           from == hooks[w].next
           upto == NextAverage(cbs, from)
           ran == [k \in 1 .. (upto - from) |-> Event(cbs[from + k - 1], hooks[w].metrics)]
           f == [name |-> SavePath(epoch[w]), params |-> params[w], lr |-> lr[w],
                 complete |-> TRUE]
       IN /\ hooks' = [hooks EXCEPT ![w].seen = @ \o ran, ![w].next = upto]
          /\ IF \E k \in 1 .. Len(ran) : ran[k].what = "ModelCheckpoint"
             THEN /\ ckptdir' = [v \in Workers |->
                                   IF v = w \/ shared THEN WriteFile(ckptdir[v], f)
                                   ELSE ckptdir[v]]
                  /\ writes' = Append(writes, [rank |-> w, name |-> f.name])
             ELSE UNCHANGED <<ckptdir, writes>>
          /\ IF upto <= Len(cbs)
             THEN /\ pc' = [pc EXCEPT ![w] = "allreduce_metrics"]
                  /\ epoch' = epoch
             ELSE /\ pc' = [pc EXCEPT ![w] = IF epoch[w] + 1 < args.epochs
                                             THEN "epoch_begin" ELSE "done"]
                  /\ epoch' = [epoch EXCEPT ![w] = @ + 1]
    /\ UNCHANGED <<args, shared, initial_epoch, checkpoint_filepath, loaded, params, lr,
                   initial_lr, batch, trace, restarts, failed, scan, sched, boot, data, stream>>

\* The job is interrupted (or has ended) and is started again with the same
\* command line; only the files survive.
Restart ==
    /\ restarts < MaxRestarts
    /\ restarts' = restarts + 1
    /\ pc' = [w \in Workers |-> "discover"]
    /\ initial_epoch' = [w \in Workers |-> 0]
    /\ checkpoint_filepath' = [w \in Workers |-> None]
    /\ loaded' = [w \in Workers |-> None]
    /\ params' = [w \in Workers |-> None]
    /\ lr' = [w \in Workers |-> Rat(0, 1)]
    /\ initial_lr' = [w \in Workers |-> Rat(0, 1)]
    /\ epoch' = [w \in Workers |-> 0]
    /\ batch' = [w \in Workers |-> 0]
    /\ trace' = [w \in Workers |-> <<>>]
    /\ writes' = <<>>
    /\ hooks' = [w \in Workers |-> NoHooks]
    /\ failed' = [w \in Workers |-> NoFailure]
    /\ UNCHANGED <<args, shared, ckptdir, scan, sched, boot, data, stream>>

Next ==
    \/ \E w \in Workers : Discover(w)
    \/ BroadcastInitialEpoch
    \/ \E w \in Workers : BuildModel(w)
    \/ BroadcastGlobalVariables
    \/ \E w \in Workers : TrainBegin(w)
    \/ \E w \in Workers : EpochBegin(w)
    \/ AllreduceGradients
    \/ AllreduceMetrics
    \/ \E w \in Workers : EpochEnd(w)
    \/ Restart

Spec == Init /\ [][Next]_vars

\* ------------------------------------------------------ the fleet with faults
\* Line 228: a training step raises (a corrupt file, a malformed batch).
StepFails(w) ==
    /\ pc[w] = "allreduce_gradients"
    /\ pc' = [pc EXCEPT ![w] = FailurePc("allreduce_gradients")]
    /\ failed' = [failed EXCEPT ![w] = "run_steps"]
    /\ UNCHANGED <<args, shared, ckptdir, initial_epoch, checkpoint_filepath, loaded,
                   params, lr, initial_lr, epoch, batch, trace, writes, restarts, hooks,
                   scan, sched, boot, data, stream>>

\* Lines 214-218: ModelCheckpoint writes the file under its final name; the
\* write raises, or the process is killed, before the file is complete.  The
\* file may already exist by then.
SaveInterrupted(w) ==
    /\ pc[w] = "on_epoch_end"
    /\ \E k \in hooks[w].next .. Len(Callbacks(w)) :
          /\ Callbacks(w)[k] = "ModelCheckpoint"
          /\ k < NextAverage(Callbacks(w), hooks[w].next)
    /\ \E created \in BOOLEAN :
          LET f == [name |-> SavePath(epoch[w]), params |-> params[w], lr |-> lr[w],
                    complete |-> FALSE]
          IN ckptdir' = [v \in Workers |->
                           IF created /\ (v = w \/ shared) THEN WriteFile(ckptdir[v], f)
                           ELSE ckptdir[v]]
    /\ pc' = [pc EXCEPT ![w] = FailurePc("on_epoch_end")]
    /\ failed' = [failed EXCEPT ![w] = "save"]
    /\ UNCHANGED <<args, shared, initial_epoch, checkpoint_filepath, loaded, params, lr,
                   initial_lr, epoch, batch, trace, writes, restarts, hooks, scan, sched,
                   boot, data, stream>>

NextFaults ==
    \/ Next
    \/ \E w \in Workers : StepFails(w)
    \/ \E w \in Workers : SaveInterrupted(w)

SpecFaults == Init /\ [][NextFaults]_vars

\* ------------------------------------------------- the discovery model
\* One checkpoint directory, written by the coordinator's ModelCheckpoint and
\* pruned from outside, and scanned with any --epochs.
ScanTags == {1, 9, 10, 99, 100, MaxScanEpochs}

ScanMaxChoices == {0} \cup ScanTags

InitScan ==
    /\ scan = [used |-> TRUE, dir |-> {}, last |-> 0, valid |-> FALSE, max_epoch |-> 0,
               result |-> [checkpoint_filepath |-> None, initial_epoch |-> 0]]
    /\ sched = Idle
    /\ boot = Idle
    /\ data = Idle
    /\ stream = Idle
    /\ FleetIdle

\* Lines 214-218: the checkpoint written when the epoch with index tag-1 ends.
ScanSave(tag) ==
    /\ scan.used
    /\ scan' = [scan EXCEPT !.dir = WriteFile(@, [name |-> SavePath(tag - 1), tag |-> tag]),
                            !.last = tag, !.valid = FALSE]
    /\ UNCHANGED fleetvars
    /\ UNCHANGED <<sched, boot, data, stream>>

\* A checkpoint is removed from outside the program.
ScanPrune(f) ==
    /\ scan.used
    /\ f \in scan.dir
    /\ scan' = [scan EXCEPT !.dir = @ \ {f}, !.last = 0, !.valid = FALSE]
    /\ UNCHANGED fleetvars
    /\ UNCHANGED <<sched, boot, data, stream>>

\* Lines 148-157 with args.epochs = max_epoch.
ScanDiscover(max_epoch) ==
    /\ scan.used
    /\ scan' = [scan EXCEPT !.valid = TRUE, !.max_epoch = max_epoch,
                            !.result = DiscoverLatest(Names(scan.dir), max_epoch)]
    /\ UNCHANGED fleetvars
    /\ UNCHANGED <<sched, boot, data, stream>>

NextScan ==
    \/ \E tag \in ScanTags : ScanSave(tag)
    \/ \E f \in scan.dir : ScanPrune(f)
    \/ \E m \in ScanMaxChoices : ScanDiscover(m)

SpecScan == InitScan /\ [][NextScan]_vars

\* -------------------------------------------------- the schedule model
\* One optimizer compiled by the script and driven by the five learning-rate
\* callbacks from epoch 0.
SchedBaseLrs == {Rat(1, 80), Rat(1, 10)}

SchedWarmups == {0, 1, 5, 29, 30, 40}

InitSched ==
    /\ sched \in [used : {TRUE}, phase : {"compile"}, base_lr : SchedBaseLrs,
                  size : 1 .. MaxSize, warmup_epochs : SchedWarmups,
                  epoch : {-1}, lr : {Rat(0, 1)}, prev : {Rat(0, 1)},
                  initial_lr : {Rat(0, 1)}]
    /\ scan = Idle
    /\ boot = Idle
    /\ data = Idle
    /\ stream = Idle
    /\ FleetIdle

\* Lines 171-186 and the start of fit: the optimizer is compiled with
\* base_lr * size and the callbacks take that rate as the one they scale.
SchedCompile ==
    /\ sched.used
    /\ sched.phase = "compile"
    /\ sched' = [sched EXCEPT !.phase = "fit",
                              !.lr = InitialLr(sched.base_lr, sched.size),
                              !.initial_lr = InitialLr(sched.base_lr, sched.size)]
    /\ UNCHANGED fleetvars
    /\ UNCHANGED <<scan, boot, data, stream>>

\* Lines 201-211: the callbacks at the start of the next epoch.
SchedEpochBegin ==
    /\ sched.used
    /\ sched.phase = "fit"
    /\ sched.epoch < MaxLrEpoch
    /\ sched' = [sched EXCEPT !.epoch = @ + 1,
                              !.prev = sched.lr,
                              !.lr = AdjustLearningRate(sched.lr, sched.initial_lr,
                                                        sched.epoch + 1, sched.size,
                                                        sched.warmup_epochs)]
    /\ UNCHANGED fleetvars
    /\ UNCHANGED <<scan, boot, data, stream>>

NextSched ==
    \/ SchedCompile
    \/ SchedEpochBegin

SpecSched == InitSched /\ [][NextSched]_vars

\* --------------------------------------------------- the startup model
\* Lines 78-88: every worker tests for its two logging directories and makes
\* the ones it did not see.  boot.dirs[w] is the set of directories worker w
\* sees under logging_dir.
LoggingDirs == <<"checkpoints", "tensorboard">>

BootShared(v, w) == v = w \/ boot.shared

InitStartup ==
    /\ boot \in [used : {TRUE}, shared : BOOLEAN,
                 dirs : {[w \in Workers |-> {}]},
                 pc : {[w \in Workers |-> "isdir"]},
                 dir : {[w \in Workers |-> 1]},
                 restarts : {0}]
    /\ scan = Idle
    /\ sched = Idle
    /\ data = Idle
    /\ stream = Idle
    /\ FleetIdle

\* Lines 83 and 87: if not os.path.isdir(...)
BootIsdir(w) ==
    /\ boot.used
    /\ boot.pc[w] = "isdir"
    /\ boot' = IF LoggingDirs[boot.dir[w]] \in boot.dirs[w]
               THEN IF boot.dir[w] < Len(LoggingDirs)
                    THEN [boot EXCEPT !.dir[w] = @ + 1]
                    ELSE [boot EXCEPT !.pc[w] = "ready"]
               ELSE [boot EXCEPT !.pc[w] = "mkdir"]
    /\ UNCHANGED fleetvars
    /\ UNCHANGED <<scan, sched, data, stream>>

\* Lines 84 and 88: os.mkdir(...) raises FileExistsError when the directory
\* exists by now.
BootMkdir(w) ==
    /\ boot.used
    /\ boot.pc[w] = "mkdir"
    /\ boot' = IF LoggingDirs[boot.dir[w]] \in boot.dirs[w]
               THEN [boot EXCEPT !.pc[w] = FailurePc("mkdir")]
               ELSE [boot EXCEPT
                       !.dirs = [v \in Workers |->
                                   IF BootShared(v, w)
                                   THEN boot.dirs[v] \cup {LoggingDirs[boot.dir[w]]}
                                   ELSE boot.dirs[v]],
                       !.pc[w] = IF boot.dir[w] < Len(LoggingDirs) THEN "isdir" ELSE "ready",
                       !.dir[w] = IF boot.dir[w] < Len(LoggingDirs) THEN @ + 1 ELSE @]
    /\ UNCHANGED fleetvars
    /\ UNCHANGED <<scan, sched, data, stream>>

\* The job is started again; the directories stay.
BootRestart ==
    /\ boot.used
    /\ boot.restarts < MaxRestarts
    /\ boot' = [boot EXCEPT !.pc = [w \in Workers |-> "isdir"],
                            !.dir = [w \in Workers |-> 1],
                            !.restarts = @ + 1]
    /\ UNCHANGED fleetvars
    /\ UNCHANGED <<scan, sched, data, stream>>

NextStartup ==
    \/ \E w \in Workers : BootIsdir(w)
    \/ \E w \in Workers : BootMkdir(w)
    \/ BootRestart

SpecStartup == InitStartup /\ [][NextStartup]_vars

\* ------------------------------------------------------ the data model
\* Lines 95-104 and 132-146: the class list and the label of an example.
EntryNames == {"cat", "dog", "fox"}

FileNames == {"a.jpg", "b.jpg"}

\* All orders in which a directory listing can return the entries S.
Listings(S) ==
    {l \in [1 .. Cardinality(S) -> S] : \A i, j \in 1 .. Cardinality(S) : l[i] = l[j] => i = j}

\* _get_label: the second to last component of the path, compared with every
\* entry of class_names.
GetLabel(file_path, class_names) ==
    [i \in 1 .. Len(class_names) |-> file_path[Len(file_path) - 1] = class_names[i]]

NoExample == [split |-> "none", file_path |-> <<>>, label |-> <<>>]

\* class_names = [item.name for item in training_data_dir.glob('*')]
InitData ==
    /\ \E train \in SUBSET EntryNames, val \in SUBSET EntryNames :
         \E class_names \in Listings(train) :
            data = [used |-> TRUE, train |-> train, val |-> val,
                    class_names |-> class_names, last |-> NoExample]
    /\ scan = Idle
    /\ sched = Idle
    /\ boot = Idle
    /\ stream = Idle
    /\ FleetIdle

\* Lines 133-136: an element of list_files(f"{training_data_dir}/*/*") mapped
\* by preprocess.
TrainingExample(class, file) ==
    /\ data.used
    /\ class \in data.train
    /\ LET file_path == <<"data", "train", class, file>>
       IN data' = [data EXCEPT !.last = [split |-> "train", file_path |-> file_path,
                                         label |-> GetLabel(file_path, data.class_names)]]
    /\ UNCHANGED fleetvars
    /\ UNCHANGED <<scan, sched, boot, stream>>

\* Lines 142-145: an element of list_files(f"{validation_data_dir}/*/*") mapped
\* by preprocess.
ValidationExample(class, file) ==
    /\ data.used
    /\ class \in data.val
    /\ LET file_path == <<"data", "val", class, file>>
       IN data' = [data EXCEPT !.last = [split |-> "val", file_path |-> file_path,
                                         label |-> GetLabel(file_path, data.class_names)]]
    /\ UNCHANGED fleetvars
    /\ UNCHANGED <<scan, sched, boot, stream>>

NextData ==
    \/ \E class \in EntryNames, file \in FileNames : TrainingExample(class, file)
    \/ \E class \in EntryNames, file \in FileNames : ValidationExample(class, file)

SpecData == InitData /\ [][NextData]_vars

\* ---------------------------------------------------- the stream model
\* Lines 63 and 132-140: the training stream of one rank in two runs over the
\* same directory contents, stepped side by side.
MaxPasses == 2

Runs == {"A", "B"}

\* The files matched by f"{training_data_dir}/*/*", in matching order.
StreamFiles == <<"cat/a.jpg", "dog/a.jpg">>

StreamSeeds == {0, 1}

StreamEpochs == 2

\* The orders a shuffle with the given buffer can produce from n elements:
\* the element at output position i is among the first i + buffer - 1 inputs.
Orders(n, buffer) ==
    {o \in [1 .. n -> 1 .. n] :
        /\ \A i, j \in 1 .. n : o[i] = o[j] => i = j
        /\ \A i \in 1 .. n : o[i] <= i + buffer - 1}

Permute(seq, o) == [i \in 1 .. Len(seq) |-> seq[o[i]]]

\* A shuffle whose order follows the fleet size in place of the rank.
ShuffleKeyBySize(stage, run, pass) == <<stage, run.seed, run.size, pass>>

\* What fixes the order of a seeded shuffle: tf.random.set_seed(args.seed),
\* the seed=hvd.rank() given to the operation, and the pass over the data
\* (reshuffle_each_iteration).
ShuffleKey(stage, run, pass) == <<stage, run.seed, stream.rank, pass>>

\* The examples fit() takes from the stream: steps_per_epoch batches for every
\* epoch from initial_epoch to epochs (batches of one example).
Needed(run) == (StreamEpochs - run.initial_epoch) * StepsPerEpoch

InitStream ==
    /\ \E rank \in 0 .. 1, buffer \in 1 .. Len(StreamFiles) :
       \E seedA, seedB \in StreamSeeds, sizeB \in 2 .. 3, epochB \in 0 .. StreamEpochs :
          stream = [used |-> TRUE, rank |-> rank, shuffle_buffer_size |-> buffer,
                    drawn |-> [k \in {} |-> <<>>],
                    run |-> [r \in Runs |->
                               [seed |-> IF r = "A" THEN seedA ELSE seedB,
                                size |-> IF r = "A" THEN 2 ELSE sizeB,
                                initial_epoch |-> IF r = "A" THEN 0 ELSE epochB,
                                passes |-> 0,
                                out |-> <<>>]]]
    /\ scan = Idle
    /\ sched = Idle
    /\ boot = Idle
    /\ data = Idle
    /\ FleetIdle

\* One pass of run r over the files: list_files(shuffle=True, seed=hvd.rank())
\* then shuffle(buffer, reshuffle_each_iteration=True, seed=hvd.rank()), under
\* repeat(). An order already drawn for the same key is drawn again.
StreamPass(r) ==
    /\ stream.used
    /\ stream.run[r].passes < MaxPasses
    /\ Len(stream.run[r].out) < Needed(stream.run[r])
    /\ LET run  == stream.run[r]
           pass == run.passes + 1
           n    == Len(StreamFiles)
           kl   == ShuffleKey("list_files", run, pass)
           kb   == ShuffleKey("shuffle", run, pass)
       IN \E ol \in Orders(n, n), ob \in Orders(n, stream.shuffle_buffer_size) :
             /\ kl \in DOMAIN stream.drawn => ol = stream.drawn[kl]
             /\ kb \in DOMAIN stream.drawn => ob = stream.drawn[kb]
             /\ stream' = [stream EXCEPT
                   !.drawn = [k \in DOMAIN stream.drawn \cup {kl, kb} |->
                                IF k = kl THEN ol ELSE IF k = kb THEN ob ELSE stream.drawn[k]],
                   !.run[r].passes = pass,
                   !.run[r].out = run.out \o Permute(Permute(StreamFiles, ol), ob)]
    /\ UNCHANGED fleetvars
    /\ UNCHANGED <<scan, sched, boot, data>>

NextStream == \E r \in Runs : StreamPass(r)

SpecStream == InitStream /\ [][NextStream]_vars

\* ============================================================ properties
Range(seq) == {seq[i] : i \in 1 .. Len(seq)}

InCollective(w) ==
    pc[w] \in {"broadcast", "broadcast_variables", "allreduce_gradients", "allreduce_metrics"}

InFit(w) ==
    pc[w] \in {"epoch_begin", "allreduce_gradients", "on_epoch_end", "allreduce_metrics", "done"}

\* C1: once the startup broadcast has completed, every worker's initial_epoch
\* (the value it passes to fit) equals the epoch rank 0 discovered.
ResumeEpochAgreement ==
    \A w \in Workers :
        "broadcast" \in Range(trace[w]) => initial_epoch[w] = initial_epoch[0]

\* C2: no worker waits in a collective that another worker never enters (the
\* other has finished, or waits in a different collective), and workers that
\* have finished have gone through the same sequence of collectives.
SameCollectiveSequence ==
    \A w, v \in Workers :
        /\ InCollective(w) => pc[v] # "done"
        /\ InCollective(w) /\ InCollective(v) => pc[w] = pc[v]
        /\ pc[w] = "done" /\ pc[v] = "done" => trace[w] = trace[v]

WitnessFreshStateBroadcast ==
    /\ loaded[0] = None
    /\ \A w \in Workers : pc[w] = "train_begin" /\ params[w] = [init |-> 0, steps |-> 0]

\* C8: two workers that train the same epoch use the same learning rate.
SameRatePerEpoch ==
    \A w, v \in Workers :
        pc[w] = "allreduce_gradients" /\ pc[v] = "allreduce_gradients" /\ epoch[w] = epoch[v]
            => lr[w] = lr[v]

\* C9: a worker other than rank 0 never loads a checkpoint, and rank 0 has
\* loaded one, the one it discovered, exactly when its discovery found one.
LoadOnlyOnCoordinator ==
    \A w \in Workers :
        /\ w # 0 => loaded[w] = None
        /\ pc[w] \notin {"discover", "broadcast", "build"} =>
              /\ w = 0 => loaded[w] = checkpoint_filepath[w]
              /\ w # 0 => params[w].init = IF "broadcast_variables" \in Range(trace[w])
                                           THEN params[0].init ELSE w

\* C9 witness: both workers found the checkpoint, rank 0 loaded it, rank 1
\* built a new model instead.
WitnessLoadOnlyOnCoordinator ==
    /\ checkpoint_filepath[1] # None
    /\ pc[1] = "broadcast_variables"
    /\ loaded[1] = None
    /\ params[1] = [init |-> 1, steps |-> 0]
    /\ loaded[0] # None

\* Epochs worker w has completed in this run.
Completed(w) ==
    IF InFit(w) \/ failed[w] \in {"run_steps", "save"} THEN epoch[w] - initial_epoch[w] ELSE 0

\* C10: every checkpoint write is rank 0's, there is exactly one per epoch
\* rank 0 has completed, the write after the k-th epoch (counted from epoch 0)
\* carries the tag k, and the directory of another worker is never written.
SaveOncePerEpochByCoordinator ==
    /\ \A i \in 1 .. Len(writes) :
          /\ writes[i].rank = 0
          /\ writes[i].name = <<"checkpoint-epoch-">> \o Format02d(initial_epoch[0] + i) \o <<".h5">>
    /\ Len(writes) = Completed(0)
    /\ ~shared => \A w \in Workers \ {0} : ckptdir[w] = {}

\* C10 witness: a run from epoch 0 in which both workers have completed two
\* epochs and rank 0 has written two checkpoints.
WitnessSaveOncePerEpoch ==
    /\ initial_epoch[0] = 0
    /\ Completed(0) = 2 /\ Completed(1) = 2
    /\ Len(writes) = 2
    /\ writes[2].name = <<"checkpoint-epoch-", 0, 2, ".h5">>

\* The file of the discovery model's directory saved for epoch tag.
FileTagged(tag) == CHOOSE f \in scan.dir : f.tag = tag

SetMax(S) == CHOOSE x \in S : \A y \in S : y <= x

\* C4: discovery returns the largest epoch in 1 .. max_epoch whose checkpoint
\* exists, with that checkpoint's path, and None with epoch 0 when there is
\* no such epoch.
DiscoveryReturnsLatest ==
    scan.used /\ scan.valid =>
        LET S == {f.tag : f \in scan.dir} \cap (1 .. scan.max_epoch)
        IN IF S = {}
           THEN scan.result = [checkpoint_filepath |-> None, initial_epoch |-> 0]
           ELSE /\ scan.result.initial_epoch = SetMax(S)
                /\ scan.result.checkpoint_filepath = FileTagged(SetMax(S)).name

\* C4 witness: checkpoints of epochs 1, 10 and 100 exist and a scan from 99
\* returns epoch 10.
WitnessDiscoveryReturnsLatest ==
    /\ scan.used /\ scan.valid
    /\ {1, 10, 100} \subseteq {f.tag : f \in scan.dir}
    /\ scan.max_epoch = 99
    /\ 99 \notin {f.tag : f \in scan.dir}
    /\ scan.result.initial_epoch = 10

\* C4 witness of the empty case: a checkpoint exists, but beyond max_epoch,
\* and the scan returns None.
WitnessDiscoveryFindsNone ==
    /\ scan.used /\ scan.valid
    /\ scan.dir # {}
    /\ scan.max_epoch > 0
    /\ scan.result = [checkpoint_filepath |-> None, initial_epoch |-> 0]

\* C5: every saved checkpoint carries the name discovery probes for its
\* epoch, and a scan with max_epoch at or above the epoch saved last, with no
\* checkpoint of a higher epoch within max_epoch, finds that epoch and file.
NamingRoundTrips ==
    scan.used =>
        /\ \A f \in scan.dir : f.name = ProbePath(f.tag)
        /\ ( /\ scan.valid
             /\ scan.last # 0
             /\ scan.max_epoch >= scan.last
             /\ \A f \in scan.dir : ~(f.tag > scan.last /\ f.tag <= scan.max_epoch) )
           => /\ scan.result.initial_epoch = scan.last
              /\ scan.result.checkpoint_filepath = FileTagged(scan.last).name

\* C5 witness: the checkpoint of epoch 100 was saved and then found.
WitnessNamingRoundTrips ==
    /\ scan.used /\ scan.valid
    /\ scan.last = 100
    /\ scan.max_epoch > 100
    /\ scan.result.initial_epoch = 100
    /\ scan.result.checkpoint_filepath = <<"checkpoint-epoch-", 1, 0, 0, ".h5">>

RAdd(x, y) == Rat(x[1] * y[2] + y[1] * x[2], x[2] * y[2])

RSub(x, y) == Rat(x[1] * y[2] - y[1] * x[2], x[2] * y[2])

SchedRunning == sched.used /\ sched.phase = "fit" /\ sched.epoch >= 0

\* C6: the rate does not decrease from one warmup epoch to the next, is exactly
\* base_lr * size at epoch warmup_epochs, and does not increase from one epoch
\* to the next after the warmup.
ScheduleShape ==
    SchedRunning =>
        /\ (sched.epoch >= 1 /\ sched.epoch < sched.warmup_epochs) => RLeq(sched.prev, sched.lr)
        /\ sched.epoch = sched.warmup_epochs =>
              sched.lr = RMul(sched.base_lr, Rat(sched.size, 1))
        /\ sched.epoch > sched.warmup_epochs => RLeq(sched.lr, sched.prev)

\* The reference function of the specification.
ReferenceLr(e, base_lr, size, warmup_epochs) ==
    LET target == RMul(base_lr, Rat(size, 1))
    IN IF e < warmup_epochs
       THEN RAdd(base_lr, RMul(RSub(target, base_lr), Rat(e, warmup_epochs)))
       ELSE RMul(target, IF e < 30 THEN Rat(1, 1)
                         ELSE IF e < 60 THEN Rat(1, 10)
                         ELSE IF e < 80 THEN Rat(1, 100)
                         ELSE Rat(1, 1000))

\* C7: at every epoch the rate is the reference function's, and base_lr 0.0125
\* with 4 workers and 5 warmup epochs gives 0.0125, 0.05, 0.005 and 0.00005 at
\* epochs 0, 5, 40 and 85.
ScheduleMatchesReference ==
    SchedRunning =>
        /\ sched.lr = ReferenceLr(sched.epoch, sched.base_lr, sched.size, sched.warmup_epochs)
        /\ (sched.base_lr = Rat(1, 80) /\ sched.size = 4 /\ sched.warmup_epochs = 5) =>
              /\ sched.epoch = 0 => sched.lr = Rat(1, 80)
              /\ sched.epoch = 5 => sched.lr = Rat(1, 20)
              /\ sched.epoch = 40 => sched.lr = Rat(1, 200)
              /\ sched.epoch = 85 => sched.lr = Rat(1, 20000)

\* A step of the running job: any step but a restart.
RunStep ==
    \/ \E w \in Workers : Discover(w) \/ BuildModel(w) \/ TrainBegin(w) \/ EpochBegin(w) \/ EpochEnd(w)
    \/ BroadcastInitialEpoch
    \/ BroadcastGlobalVariables
    \/ AllreduceGradients
    \/ AllreduceMetrics

\* C11: a worker is DONE exactly when its current epoch equals --epochs, no
\* worker's epoch exceeds --epochs, and the job never comes to a halt before
\* every worker is DONE.
TerminatesAtEpochs ==
    /\ \A w \in Workers : InFit(w) => epoch[w] <= args.epochs
    /\ \A w \in Workers : pc[w] = "done" <=> (InFit(w) /\ epoch[w] = args.epochs)
    /\ ~(ENABLED RunStep) => \A w \in Workers : pc[w] = "done"

\* Position of the first event named what in the epoch's events, 0 if none.
Pos(w, what) ==
    LET S == {i \in 1 .. Len(hooks[w].seen) : hooks[w].seen[i].what = what}
    IN IF S = {} THEN 0 ELSE CHOOSE i \in S : \A j \in S : i <= j

Before(w, a, b) == (Pos(w, a) # 0 /\ Pos(w, b) # 0) => Pos(w, a) < Pos(w, b)

\* Place of an event in the order of an epoch.
Phase(what) ==
    CASE what = "adjust_lr" -> 0
      [] what = "run_steps" -> 1
      [] what = "BroadcastGlobalVariablesCallback" -> 2
      [] what = "MetricAverageCallback" -> 3
      [] what \in {"LearningRateWarmupCallback", "LearningRateScheduleCallback"} -> 4
      [] what = "ModelCheckpoint" -> 5
      [] what = "TensorBoard" -> 6

\* C12 as stated: in an epoch the steps come first, then the metric average,
\* then the setting of the learning rate, then the checkpoint, and whatever
\* runs after the metric average sees averaged metrics.
PhaseOrderAsStated ==
    \A w \in Workers :
        /\ Before(w, "run_steps", "MetricAverageCallback")
        /\ Before(w, "run_steps", "adjust_lr")
        /\ Before(w, "MetricAverageCallback", "adjust_lr")
        /\ Before(w, "adjust_lr", "ModelCheckpoint")
        /\ \A i \in 1 .. Len(hooks[w].seen) :
              Phase(hooks[w].seen[i].what) >= 3 => hooks[w].seen[i].metrics = "averaged"

\* C12 amended: in an epoch the learning rate is set first, then come the
\* steps, the metric average, the epoch-end hooks of the learning-rate
\* callbacks and, on rank 0 only, the checkpoint and the TensorBoard log; every
\* callback that runs from the metric average on sees averaged metrics.
PhaseOrder ==
    \A w \in Workers :
        /\ \A i, j \in 1 .. Len(hooks[w].seen) :
              i < j => Phase(hooks[w].seen[i].what) <= Phase(hooks[w].seen[j].what)
        /\ \A i \in 1 .. Len(hooks[w].seen) :
              /\ Phase(hooks[w].seen[i].what) >= 3 => hooks[w].seen[i].metrics = "averaged"
              /\ Phase(hooks[w].seen[i].what) >= 5 => w = 0
        /\ hooks[w].next > Len(Callbacks(w)) =>
              {hooks[w].seen[i].what : i \in 1 .. Len(hooks[w].seen)}
                  = {"adjust_lr", "run_steps"} \cup Range(Callbacks(w))

\* C12 witness: both workers have ended an epoch; rank 0 ran eleven events,
\* the last one TensorBoard with averaged metrics, rank 1 ran nine.
WitnessPhaseOrder ==
    /\ Len(hooks[0].seen) = 11
    /\ hooks[0].seen[11] = Event("TensorBoard", "averaged")
    /\ hooks[0].seen[10] = Event("ModelCheckpoint", "averaged")
    /\ hooks[0].seen[1] = Event("adjust_lr", "none")
    /\ Len(hooks[1].seen) = 9
    /\ hooks[1].seen[9] = Event("LearningRateScheduleCallback", "averaged")

\* C13: the checkpoint that discovery has chosen on a worker that will load
\* it, and every checkpoint handed to hvd.load_model, is a file whose write
\* was completed.
SelectedCheckpointIsComplete ==
    \A w \in Workers :
        /\ (pc[w] \in {"broadcast", "build"} /\ RestoresCheckpoint(w)) =>
              FileAt(ckptdir[w], checkpoint_filepath[w]).complete
        /\ loaded[w] # None => FileAt(ckptdir[w], loaded[w]).complete

\* C14: a worker in which a training step, a checkpoint write or a checkpoint
\* read has raised is aborted, and an aborted worker stays aborted for the
\* rest of the run: it runs no further step or epoch, writes no checkpoint and
\* does not enter the failed operation again.
FailuresAreFatal ==
    /\ [](\A w \in Workers : failed[w] # NoFailure => pc[w] = "aborted")
    /\ [][\A w \in Workers :
            (pc[w] = "aborted" /\ restarts' = restarts) =>
                /\ pc'[w] = "aborted"
                /\ failed'[w] = failed[w]
                /\ epoch'[w] = epoch[w]
                /\ batch'[w] = batch[w]
                /\ params'[w] = params[w]
                /\ trace'[w] = trace[w]
                /\ hooks'[w] = hooks[w]
                /\ (LogsFromWorker(w) => writes' = writes /\ ckptdir' = ckptdir)]_vars

\* C14 witness: rank 0's checkpoint write failed after the first epoch and a
\* training step of rank 1 failed in the second; both are aborted.
WitnessFailuresAreFatal ==
    /\ failed[0] = "save" /\ pc[0] = "aborted"
    /\ failed[1] = "run_steps" /\ pc[1] = "aborted"
    /\ epoch[1] = 1

\* C14 witness of the read failure: rank 0 gave an incomplete checkpoint to
\* hvd.load_model and is aborted.
WitnessLoadFailureIsFatal ==
    /\ failed[0] = "load_model" /\ pc[0] = "aborted"
    /\ loaded[0] # None

\* C18: when rank 0 has finished its discovery, its resume epoch is the number
\* of checkpoints that have been written, the checkpoint it found holds the
\* state after that many epochs, every checkpoint this run has written belongs
\* to a later epoch, and when rank 0 is DONE the checkpoints of all epochs
\* 1 .. --epochs exist.
ResumeAtWrittenEpochs ==
    /\ pc[0] = "broadcast" =>
          /\ initial_epoch[0] = Cardinality({f \in ckptdir[0] : f.complete})
          /\ \A e \in 1 .. initial_epoch[0] :
                \E f \in ckptdir[0] :
                    /\ f.name = ProbePath(e)
                    /\ f.complete
                    /\ f.params.steps = e * StepsPerEpoch
    /\ \A i \in 1 .. Len(writes) :
          \A e \in 1 .. initial_epoch[0] : writes[i].name # ProbePath(e)
    /\ pc[0] = "done" =>
          \A e \in 1 .. args.epochs :
              \E f \in ckptdir[0] : f.name = ProbePath(e) /\ f.complete

\* The rate a run started at epoch 0 and never interrupted uses at epoch e.
RECURSIVE UninterruptedLr(_)
UninterruptedLr(e) ==
    AdjustLearningRate(IF e = 0 THEN InitialLr(args.base_lr, NumWorkers)
                       ELSE UninterruptedLr(e - 1),
                       InitialLr(args.base_lr, NumWorkers), e, NumWorkers,
                       args.warmup_epochs)

\* C19: at every epoch every worker, resumed or not, trains with the learning
\* rate of the uninterrupted run.
ResumedRateIsUninterruptedRate ==
    \A w \in Workers :
        pc[w] = "allreduce_gradients" => lr[w] = UninterruptedLr(epoch[w])

\* C17: no worker's os.mkdir fails, so no worker is aborted before it is
\* ready for the startup broadcast.
StartupNeverFails ==
    boot.used => \A w \in Workers : boot.pc[w] # "aborted"

\* C15: the label of every training and every validation example has exactly
\* one true position.
LabelsAreOneHot ==
    (data.used /\ data.last.split # "none") =>
        Cardinality({i \in 1 .. Len(data.last.label) : data.last.label[i]}) = 1

\* The two runs have produced the same examples as far as both have got.
SamePrefix ==
    \A i \in 1 .. Len(stream.run["A"].out) :
        i <= Len(stream.run["B"].out) => stream.run["A"].out[i] = stream.run["B"].out[i]

\* C16 as stated: two runs of the same rank over the same files produce the
\* same sequence of examples, whatever their fleet sizes, resume epochs and
\* --seed arguments.
SameStreamForSameRank == stream.used => SamePrefix

\* C16: two runs of the same rank with the same --seed over the same files
\* produce the same sequence of examples, whatever their fleet sizes and
\* resume epochs.
SameStreamForSameRankAndSeed ==
    (stream.used /\ stream.run["A"].seed = stream.run["B"].seed) => SamePrefix

\* Both runs have made every pass, with the same --seed but different fleet
\* sizes and resume epochs, and the shuffles changed the order of the files.
WitnessSameStream ==
    /\ stream.used
    /\ stream.run["A"].seed = stream.run["B"].seed
    /\ stream.run["A"].size # stream.run["B"].size
    /\ stream.run["A"].initial_epoch # stream.run["B"].initial_epoch
    /\ \A r \in Runs : stream.run[r].passes = MaxPasses
    /\ stream.run["B"].out[1] # StreamFiles[1]
    /\ SamePrefix

====
